---- MODULE Spec2Model ----
(***************************************************************************)
(* The particle-network background of the login page: the two component    *)
(* variants                                                                *)
(*   "tsx"  : src/src/components/ParticleNetwork.tsx                       *)
(*   "part" : src/unnamed/part_000                                         *)
(* as one state machine.  Numbers of the program are IEEE doubles; here    *)
(* they are fixed-point integers, 1 pixel = Unit units, and every          *)
(* multiplication by a decimal constant is a multiplication by its         *)
(* numerator followed by a division (truncated toward zero) by its         *)
(* denominator.  Math.random() returns one of RandDen values k / RandDen.  *)
(***************************************************************************)
EXTENDS Integers, Sequences, FiniteSets, TLC

VARIABLES
    variant,       \* which component variant the page shows
    phase,         \* "rendered" (effects not yet run), "mounted", "torn"
    canvasRef,     \* canvasRef.current: "null", "noctx" (no 2D context), "ok"
    win,           \* <<window.innerWidth, window.innerHeight>>
    canvasSize,    \* <<canvas.width, canvas.height>>
    particles,     \* particles.current / particlesRef.current
    connections,   \* connections.current / connectionsRef.current
    mouse,         \* mouse.current / mouseRef.current
    animationRef,  \* animationFrameRef.current / animationRef.current (0: unset)
    rafPending,    \* ids of the frame callbacks requested and not yet run or cancelled
    nextRafId,     \* the id the next requestAnimationFrame returns
    listeners,     \* the window listeners registered: "mousemove", "resize"
    timer,         \* the setTimeout(..., 500) of the tsx variant is pending
    showContent,   \* the showContent state of the tsx variant
    dimsDirty,     \* setDimensions was called and the re-render has not happened yet
    surface,       \* what the last draw pass painted: [lines, discs]
    lastInit,      \* the particle collection as the last initializer run produced it
    lastOp,        \* the handler that ran last
    lastAnim,      \* outcome of the last animate() call: "none", "skipped", "ran"
    rebuilt,       \* the last animate() call rebuilt the connection graph
    frames,        \* number of frame callbacks run
    moves,         \* number of pointer events delivered
    resizes        \* number of resize events delivered

vars ==
    <<variant, phase, canvasRef, win, canvasSize, particles, connections, mouse,
      animationRef, rafPending, nextRafId, listeners, timer, showContent, dimsDirty,
      surface, lastInit, lastOp, lastAnim, rebuilt, frames, moves, resizes>>

(***************************************************************************)
(* Bounds of the model.                                                    *)
(***************************************************************************)
MaxFrames == 3
MaxMoves == 1
MaxResizes == 1
MaxDragFrames == 40

(***************************************************************************)
(* Number representation.                                                  *)
(***************************************************************************)
Unit == 100
RandDen == 1000

DivT(a, b) ==
    IF a >= 0 THEN a \div b ELSE -((-a) \div b)

\* Bisection for the integer part of the square root of n within lo..hi.
SqrtSearch[n \in Nat, lo \in Nat, hi \in Nat] ==
    IF lo >= hi THEN lo
    ELSE IF ((lo + hi + 1) \div 2) * ((lo + hi + 1) \div 2) <= n
         THEN SqrtSearch[n, (lo + hi + 1) \div 2, hi]
         ELSE SqrtSearch[n, lo, (lo + hi + 1) \div 2 - 1]

\* Math.sqrt on fixed-point values: the integer part of the square root.
Sqrt(n) ==
    SqrtSearch[n, 0, 46340]

(***************************************************************************)
(* Program constants.                                                      *)
(***************************************************************************)
AreaPerParticle == 8000
ProximityThreshold == 150
MagneticRadius == 200
MaxSpeed == 3
\* decimal constants as <<numerator, denominator>>
VelocitySpread == <<3, 10>>
RadiusSpread == <<25, 10>>
ForceGain == <<9, 10>>
ForceStep == <<2, 10>>
ReturnForce == <<1, 100>>
Friction == <<98, 100>>
LineAlpha == <<2, 10>>

(***************************************************************************)
(* Pure functions of the components.                                       *)
(***************************************************************************)
\* One Math.random() result k / RandDen scaled by a factor given in units.
RandomTimes(k, factor) ==
    DivT(k * factor, RandDen)

\* getRandomColor: the hsla(...) string as <<hue, saturation, lightness, alpha>>.
getRandomColor(d) ==
    <<RandomTimes(d.hue, 60 * Unit) + 220 * Unit,
      RandomTimes(d.sat, 30 * Unit) + 70 * Unit,
      RandomTimes(d.lig, 20 * Unit) + 50 * Unit,
      <<8, 10>>>>

\* (Math.random() - 0.5) * 0.3
RandomVelocity(k) ==
    DivT((2 * k - RandDen) * VelocitySpread[1] * Unit, 2 * RandDen * VelocitySpread[2])

\* The particle literal of the initializer; d holds the Math.random() results
\* in the order the code draws them.  (life and maxLife of the part variant
\* are set to 100 and never read or written again; they are left out.)
NewParticle(d, width, height) ==
    LET x == RandomTimes(d.x, width * Unit)
        y == RandomTimes(d.y, height * Unit)
    IN  [x |-> x, y |-> y,
         vx |-> RandomVelocity(d.vx), vy |-> RandomVelocity(d.vy),
         radius |-> DivT(d.radius * RadiusSpread[1] * Unit, RandDen * RadiusSpread[2]) + Unit,
         color |-> getRandomColor(d),
         originalX |-> x, originalY |-> y]

\* Mutant: the count rounded up instead of down.
ParticleCountCeil(width, height) ==
    (width * height + AreaPerParticle - 1) \div AreaPerParticle

\* Math.floor((width * height) / 8000)
ParticleCount(width, height) ==
    (width * height) \div AreaPerParticle

\* The particle collection of the initializer for the draws ds (one per particle).
CreateParticles(ds, width, height) ==
    [i \in 1..Len(ds) |-> NewParticle(ds[i], width, height)]

\* distance = Math.sqrt(dx * dx + dy * dy)
Distance(dx, dy) ==
    Sqrt(dx * dx + dy * dy)

\* Mutant: the threshold test is distance <= 150.
RECURSIVE ConnectionLoopInclusive(_, _, _, _)
ConnectionLoopInclusive(ps, i, j, newConnections) ==
    IF i >= Len(ps) THEN newConnections
    ELSE IF j >= Len(ps) THEN ConnectionLoopInclusive(ps, i + 1, i + 2, newConnections)
    ELSE LET dx == ps[i + 1].x - ps[j + 1].x
             dy == ps[i + 1].y - ps[j + 1].y
             distance == Distance(dx, dy)
         IN  ConnectionLoopInclusive(ps, i, j + 1,
                 IF distance <= ProximityThreshold * Unit
                 THEN Append(newConnections, [from |-> i, to |-> j, distance |-> distance])
                 ELSE newConnections)

\* The two nested loops of updateConnections, i and j counted from 0 as in the code.
RECURSIVE ConnectionLoop(_, _, _, _)
ConnectionLoop(ps, i, j, newConnections) ==
    IF i >= Len(ps) THEN newConnections
    ELSE IF j >= Len(ps) THEN ConnectionLoop(ps, i + 1, i + 2, newConnections)
    ELSE LET dx == ps[i + 1].x - ps[j + 1].x
             dy == ps[i + 1].y - ps[j + 1].y
             distance == Distance(dx, dy)
         IN  ConnectionLoop(ps, i, j + 1,
                 IF distance < ProximityThreshold * Unit
                 THEN Append(newConnections, [from |-> i, to |-> j, distance |-> distance])
                 ELSE newConnections)

updateConnections(ps) ==
    ConnectionLoop(ps, 0, 1, <<>>)

\* Mutant: the origin moves along with the particle.
AdvanceCarriesOrigin(p) ==
    [p EXCEPT !.x = p.x + p.vx, !.y = p.y + p.vy,
              !.originalX = p.originalX + p.vx, !.originalY = p.originalY + p.vy]

\* particle.x += particle.vx; particle.y += particle.vy
Advance(p) ==
    [p EXCEPT !.x = p.x + p.vx, !.y = p.y + p.vy]

\* Mutant: one test for both axes, either edge turns the particle around.
ReflectCoupled(p, width, height) ==
    IF p.x < 0 \/ p.x > width * Unit \/ p.y < 0 \/ p.y > height * Unit
    THEN [p EXCEPT !.vx = -p.vx, !.vy = -p.vy]
    ELSE p

\* Mutant: only the lower edges reflect.
ReflectLowOnly(p, width, height) ==
    [p EXCEPT !.vx = IF p.x < 0 THEN -p.vx ELSE p.vx,
              !.vy = IF p.y < 0 THEN -p.vy ELSE p.vy]

\* Bounce off edges: the test reads the already advanced position.
Reflect(p, width, height) ==
    [p EXCEPT !.vx = IF p.x < 0 \/ p.x > width * Unit THEN -p.vx ELSE p.vx,
              !.vy = IF p.y < 0 \/ p.y > height * Unit THEN -p.vy ELSE p.vy]

\* The least integer whose square is at least n.
CeilSqrt(n) ==
    LET r == Sqrt(n) IN IF r * r = n THEN r ELSE r + 1

\* Math.cos(Math.atan2(dy, dx)) and Math.sin(Math.atan2(dy, dx)), in units,
\* rounded toward zero; atan2(0, 0) is 0.
CosAtan2(dy, dx) ==
    IF dx = 0 /\ dy = 0 THEN Unit ELSE DivT(dx * Unit, CeilSqrt(dx * dx + dy * dy))

SinAtan2(dy, dx) ==
    IF dx = 0 /\ dy = 0 THEN 0 ELSE DivT(dy * Unit, CeilSqrt(dx * dx + dy * dy))

\* Mutant: the attraction branch without its speed limit.
LimitSpeedNever(p) ==
    p

\* The speed limit of the attraction branch.
LimitSpeed(p) ==
    LET speed == Sqrt(p.vx * p.vx + p.vy * p.vy)
    IN  IF speed > MaxSpeed * Unit
        THEN [p EXCEPT !.vx = DivT(p.vx * MaxSpeed * Unit, speed),
                       !.vy = DivT(p.vy * MaxSpeed * Unit, speed)]
        ELSE p

\* distance < magneticRadius: force toward the pointer, then the speed limit.
Attract(p, dx, dy, distance) ==
    LET force == DivT(ForceGain[1] * (MagneticRadius * Unit - distance),
                      ForceGain[2] * MagneticRadius)
        pushed == [p EXCEPT
            !.vx = p.vx + DivT(CosAtan2(dy, dx) * force * ForceStep[1], Unit * ForceStep[2]),
            !.vy = p.vy + DivT(SinAtan2(dy, dx) * force * ForceStep[1], Unit * ForceStep[2])]
    IN  LimitSpeed(pushed)

\* otherwise: pull toward the original position, then friction.
ReturnToOrigin(p) ==
    LET vx == p.vx + DivT((p.originalX - p.x) * ReturnForce[1], ReturnForce[2])
        vy == p.vy + DivT((p.originalY - p.y) * ReturnForce[1], ReturnForce[2])
    IN  [p EXCEPT !.vx = DivT(vx * Friction[1], Friction[2]),
                  !.vy = DivT(vy * Friction[1], Friction[2])]

\* Mutant: the stage is not gated on mouse.moved.
MagnetismUngated(p, m) ==
    LET dx == m.x - p.x
        dy == m.y - p.y
        distance == Distance(dx, dy)
    IN  IF distance < MagneticRadius * Unit
        THEN Attract(p, dx, dy, distance)
        ELSE ReturnToOrigin(p)

\* The magnetism stage: if (mouse.moved) { ... }
Magnetism(p, m) ==
    IF m.moved
    THEN LET dx == m.x - p.x
             dy == m.y - p.y
             distance == Distance(dx, dy)
         IN  IF distance < MagneticRadius * Unit
             THEN Attract(p, dx, dy, distance)
             ELSE ReturnToOrigin(p)
    ELSE p

\* The body of particles.forEach in animate.
UpdateParticle(p, m, width, height) ==
    Magnetism(Reflect(Advance(p), width, height), m)

UpdateParticles(ps, m, width, height) ==
    [i \in 1..Len(ps) |-> UpdateParticle(ps[i], m, width, height)]

\* One stroked connection: opacity = 1 - distance / 150 is kept as its numerator
\* over 150 * Unit, the stroke alpha opacity * 0.2 as <<numerator, denominator>>.
Opacity(conn) ==
    ProximityThreshold * Unit - conn.distance

DrawLine(ps, conn) ==
    [x1 |-> ps[conn.from + 1].x, y1 |-> ps[conn.from + 1].y,
     x2 |-> ps[conn.to + 1].x, y2 |-> ps[conn.to + 1].y,
     from |-> conn.from, to |-> conn.to,
     alpha |-> <<Opacity(conn) * LineAlpha[1], ProximityThreshold * Unit * LineAlpha[2]>>]

RECURSIVE DrawConnections(_, _)
DrawConnections(ps, conns) ==
    IF conns = <<>> THEN <<>>
    ELSE LET rest == DrawConnections(ps, Tail(conns))
         IN  IF Opacity(Head(conns)) > 0
             THEN <<DrawLine(ps, Head(conns))>> \o rest
             ELSE rest

DrawParticles(ps) ==
    [i \in 1..Len(ps) |-> [x |-> ps[i].x, y |-> ps[i].y,
                            radius |-> ps[i].radius, color |-> ps[i].color]]

\* The draw pass of animate: background, then the connections, then the particles.
DrawPass(v, ps, conns) ==
    [background |-> IF v = "tsx" THEN "black" ELSE "clear",
     lines |-> DrawConnections(ps, conns),
     discs |-> DrawParticles(ps)]

NoSurface ==
    [background |-> "none", lines |-> <<>>, discs |-> <<>>]

\* Mutant: a step without rebuild refreshes the cached distance of the
\* connections it keeps.
AnimateRefreshesDistances(v, cref, size, ps, conns, m, drawn, rebuild) ==
    LET Refreshed(moved) ==
            [k \in 1..Len(conns) |->
                [conns[k] EXCEPT !.distance =
                    Distance(moved[conns[k].from + 1].x - moved[conns[k].to + 1].x,
                             moved[conns[k].from + 1].y - moved[conns[k].to + 1].y)]]
        AfterUpdate(moved) ==
            [ran |-> TRUE,
             particles |-> moved,
             surface |-> DrawPass(v, moved, conns),
             connections |-> IF rebuild THEN updateConnections(moved) ELSE Refreshed(moved),
             rebuilt |-> rebuild]
    IN  IF cref # "ok"
        THEN [ran |-> FALSE, particles |-> ps, connections |-> conns,
              surface |-> drawn, rebuilt |-> FALSE]
        ELSE AfterUpdate(UpdateParticles(ps, m, size[1], size[2]))

\* Mutant: the draw pass snaps each particle to a whole pixel and stores the
\* snapped position in the particle.
AnimateDrawSnaps(v, cref, size, ps, conns, m, drawn, rebuild) ==
    LET Snapped(moved) ==
            [i \in 1..Len(moved) |->
                [moved[i] EXCEPT !.x = DivT(moved[i].x, Unit) * Unit,
                                 !.y = DivT(moved[i].y, Unit) * Unit]]
        AfterDraw(shown) ==
            [ran |-> TRUE,
             particles |-> shown,
             surface |-> DrawPass(v, shown, conns),
             connections |-> IF rebuild THEN updateConnections(shown) ELSE conns,
             rebuilt |-> rebuild]
    IN  IF cref # "ok"
        THEN [ran |-> FALSE, particles |-> ps, connections |-> conns,
              surface |-> drawn, rebuilt |-> FALSE]
        ELSE AfterDraw(Snapped(UpdateParticles(ps, m, size[1], size[2])))

\* Mutant: the rebuild runs before the draw pass.
AnimateRebuildFirst(v, cref, size, ps, conns, m, drawn, rebuild) ==
    LET AfterRebuild(moved, graph) ==
            [ran |-> TRUE,
             particles |-> moved,
             surface |-> DrawPass(v, moved, graph),
             connections |-> graph,
             rebuilt |-> rebuild]
        AfterUpdate(moved) ==
            AfterRebuild(moved, IF rebuild THEN updateConnections(moved) ELSE conns)
    IN  IF cref # "ok"
        THEN [ran |-> FALSE, particles |-> ps, connections |-> conns,
              surface |-> drawn, rebuilt |-> FALSE]
        ELSE AfterUpdate(UpdateParticles(ps, m, size[1], size[2]))

\* Mutant: no early return when the canvas has no 2D context.
AnimateUnguarded(v, cref, size, ps, conns, m, drawn, rebuild) ==
    LET AfterUpdate(moved) ==
            [ran |-> TRUE,
             particles |-> moved,
             surface |-> DrawPass(v, moved, conns),
             connections |-> IF rebuild THEN updateConnections(moved) ELSE conns,
             rebuilt |-> rebuild]
    IN  IF cref = "null"
        THEN [ran |-> FALSE, particles |-> ps, connections |-> conns,
              surface |-> drawn, rebuilt |-> FALSE]
        ELSE AfterUpdate(UpdateParticles(ps, m, size[1], size[2]))

\* animate(): what one call leaves behind.  rebuild is Math.random() < 0.05.
\* ran = FALSE is the early return without a drawing surface.
Animate(v, cref, size, ps, conns, m, drawn, rebuild) ==
    LET AfterUpdate(moved) ==
            [ran |-> TRUE,
             particles |-> moved,
             surface |-> DrawPass(v, moved, conns),
             connections |-> IF rebuild THEN updateConnections(moved) ELSE conns,
             rebuilt |-> rebuild]
    IN  IF cref # "ok"
        THEN [ran |-> FALSE, particles |-> ps, connections |-> conns,
              surface |-> drawn, rebuilt |-> FALSE]
        ELSE AfterUpdate(UpdateParticles(ps, m, size[1], size[2]))

(***************************************************************************)
(* Inputs: the environment's choices, drawn from small sets.               *)
(***************************************************************************)
Variants == {"tsx", "part"}

CanvasStates == {"ok", "noctx", "null"}

\* window.innerWidth x window.innerHeight: no particle, two particles.
Viewports == {<<150, 50>>, <<300, 60>>}

\* The Math.random() results of one particle of the initializer.
Draw(x, y, vx, vy) ==
    [x |-> x, y |-> y, vx |-> vx, vy |-> vy,
     radius |-> 500, hue |-> 0, sat |-> 999, lig |-> 500]

AtRestCorner == Draw(0, 0, 500, 500)
AtRestMiddle == Draw(500, 0, 500, 500)
LeavingMiddle == Draw(500, 0, 0, 0)
LeavingFarCorner == Draw(999, 999, 999, 999)
AtRestNearCorner == Draw(250, 0, 500, 500)

\* The Math.random() results of one run of the initializer, particle by
\* particle; a run that creates n particles uses the first n.
Draws ==
    {<<AtRestCorner, AtRestMiddle>>,
     <<AtRestCorner, LeavingMiddle>>,
     <<LeavingFarCorner, AtRestCorner>>,
     <<LeavingMiddle, LeavingFarCorner>>,
     <<AtRestCorner, AtRestNearCorner>>}

\* The draws of a run that creates n particles.
DrawsFor(D, n) ==
    {SubSeq(ds, 1, n) : ds \in {d \in D : Len(d) >= n}}

\* clientX, clientY of the pointer events.
MousePoints == {<<10, 10>>, <<299, 59>>}

\* Mutant: animate() ends without requestAnimationFrame(animate).
RequestedNever(res, pending) ==
    pending

\* A new browser frame callback is requested iff animate() ran to its end.
Requested(res, pending) ==
    IF res.ran THEN pending \cup {nextRafId} ELSE pending

(***************************************************************************)
(* The state after the first render: refs and state hold their initial     *)
(* values, no effect has run.  A canvas element is 300 x 150 by default.   *)
(***************************************************************************)
Blank ==
    /\ particles = <<>>
    /\ connections = <<>>
    /\ mouse = [x |-> 0, y |-> 0, moved |-> FALSE]
    /\ animationRef = 0
    /\ rafPending = {}
    /\ listeners = {}
    /\ timer = FALSE
    /\ showContent = FALSE
    /\ dimsDirty = FALSE
    /\ canvasSize = <<300, 150>>
    /\ surface = NoSurface
    /\ lastInit = <<>>

Init ==
    /\ variant \in Variants
    /\ phase = "rendered"
    /\ canvasRef \in CanvasStates
    /\ win \in Viewports
    /\ Blank
    /\ nextRafId = 1
    /\ lastOp = "init"
    /\ lastAnim = "none"
    /\ rebuilt = FALSE
    /\ frames = 0
    /\ moves = 0
    /\ resizes = 0

\* The effect of one animate() call on the state; pending is the set of
\* requested callbacks the call starts from.
RunAnimate(ps, conns, size, pending, rebuild) ==
    \E res \in {Animate(variant, canvasRef, size, ps, conns, mouse, surface, rebuild)} :
        /\ particles' = res.particles
        /\ connections' = res.connections
        /\ surface' = res.surface
        /\ rebuilt' = res.rebuilt
        /\ lastAnim' = IF res.ran THEN "ran" ELSE "skipped"
        /\ rafPending' = Requested(res, pending)
        /\ animationRef' = IF res.ran THEN nextRafId ELSE animationRef
        /\ nextRafId' = IF res.ran THEN nextRafId + 1 ELSE nextRafId

\* Mutant: the cleanup forgets cancelAnimationFrame.
CancelledNothing(pending) ==
    pending

\* cancelAnimationFrame(animationRef.current)
Cancelled(pending) ==
    pending \ {animationRef}

\* tsx: the single mount effect.
MountTsx(D) ==
    /\ variant = "tsx"
    /\ phase = "rendered"
    /\ phase' = "mounted"
    /\ lastOp' = "mount"
    /\ IF canvasRef = "null"
       THEN UNCHANGED <<canvasSize, particles, connections, surface, rebuilt, lastAnim,
                        rafPending, animationRef, nextRafId, listeners, timer, lastInit>>
       ELSE \E ds \in DrawsFor(D, ParticleCount(win[1], win[2])), rebuild \in BOOLEAN :
              LET created == CreateParticles(ds, win[1], win[2])
              IN  /\ canvasSize' = win
                  /\ lastInit' = created
                  /\ RunAnimate(created, updateConnections(created), win, rafPending, rebuild)
                  /\ listeners' = listeners \cup {"mousemove", "resize"}
                  /\ timer' = TRUE
    /\ UNCHANGED <<variant, canvasRef, win, mouse, showContent, dimsDirty,
                   frames, moves, resizes>>

\* part: the three mount effects, in order: handleResize() and the resize
\* listener, the mousemove listener, the animation effect.
MountPart(D) ==
    /\ variant = "part"
    /\ phase = "rendered"
    /\ phase' = "mounted"
    /\ lastOp' = "mount"
    /\ listeners' = listeners \cup {"resize", "mousemove"}
    /\ IF canvasRef = "null"
       THEN UNCHANGED <<canvasSize, particles, connections, surface, rebuilt, lastAnim,
                        rafPending, animationRef, nextRafId, dimsDirty, lastInit>>
       ELSE \E ds \in DrawsFor(D, ParticleCount(win[1], win[2])), rebuild \in BOOLEAN :
              LET created == CreateParticles(ds, win[1], win[2])
              IN  /\ canvasSize' = win
                  /\ dimsDirty' = TRUE
                  /\ lastInit' = created
                  /\ RunAnimate(created, updateConnections(created), win, rafPending, rebuild)
    /\ UNCHANGED <<variant, canvasRef, win, mouse, showContent, timer,
                   frames, moves, resizes>>

Mount(D) ==
    MountTsx(D) \/ MountPart(D)

\* The browser runs a requested frame callback: animate().
FrameCallback(cap) ==
    /\ frames < cap
    /\ \E id \in rafPending, rebuild \in BOOLEAN :
         RunAnimate(particles, connections, canvasSize, rafPending \ {id}, rebuild)
    /\ frames' = frames + 1
    /\ lastOp' = "frame"
    /\ UNCHANGED <<variant, phase, canvasRef, win, canvasSize, mouse, listeners, timer,
                   showContent, dimsDirty, lastInit, moves, resizes>>

\* Mutant: the listener keeps the first position it saw.
MouseMoveKeepsFirst(pt) ==
    /\ "mousemove" \in listeners
    /\ mouse' = IF mouse.moved THEN mouse
                ELSE [x |-> pt[1] * Unit, y |-> pt[2] * Unit, moved |-> TRUE]
    /\ moves' = moves + 1
    /\ lastOp' = "mousemove"
    /\ UNCHANGED <<variant, phase, canvasRef, win, canvasSize, particles, connections,
                   animationRef, rafPending, nextRafId, listeners, timer, showContent,
                   dimsDirty, surface, lastInit, lastAnim, rebuilt, frames, resizes>>

\* handleMouseMove
MouseMove(pt) ==
    /\ "mousemove" \in listeners
    /\ mouse' = [x |-> pt[1] * Unit, y |-> pt[2] * Unit, moved |-> TRUE]
    /\ moves' = moves + 1
    /\ lastOp' = "mousemove"
    /\ UNCHANGED <<variant, phase, canvasRef, win, canvasSize, particles, connections,
                   animationRef, rafPending, nextRafId, listeners, timer, showContent,
                   dimsDirty, surface, lastInit, lastAnim, rebuilt, frames, resizes>>

\* Mutant: the animation effect returns no cleanup; its restart calls
\* animate() beside the chain that is running.
RerenderNoCleanup ==
    /\ variant = "part"
    /\ phase = "mounted"
    /\ dimsDirty
    /\ dimsDirty' = FALSE
    /\ \E rebuild \in BOOLEAN :
         RunAnimate(particles, connections, canvasSize, rafPending, rebuild)
    /\ lastOp' = "rerender"
    /\ UNCHANGED <<variant, phase, canvasRef, win, canvasSize, mouse, listeners, timer,
                   showContent, lastInit, frames, moves, resizes>>

\* part: the re-render that setDimensions asked for restarts the animation
\* effect: its cleanup, then its body.
Rerender ==
    /\ variant = "part"
    /\ phase = "mounted"
    /\ dimsDirty
    /\ dimsDirty' = FALSE
    /\ \E rebuild \in BOOLEAN :
         RunAnimate(particles, connections, canvasSize, Cancelled(rafPending), rebuild)
    /\ lastOp' = "rerender"
    /\ UNCHANGED <<variant, phase, canvasRef, win, canvasSize, mouse, listeners, timer,
                   showContent, lastInit, frames, moves, resizes>>

\* Mutant: handleResize without its updateConnections() call.
HandleResizeStale(vp, D) ==
    /\ variant = "part"
    /\ "resize" \in listeners
    /\ lastOp' = "resize"
    /\ IF canvasRef = "null"
       THEN UNCHANGED <<canvasSize, particles, connections, surface, dimsDirty, lastInit>>
       ELSE \E ds \in DrawsFor(D, ParticleCount(vp[1], vp[2])) :
              LET created == CreateParticles(ds, vp[1], vp[2])
              IN  /\ canvasSize' = vp
                  /\ dimsDirty' = TRUE
                  /\ particles' = created
                  /\ lastInit' = created
                  /\ connections' = connections
                  /\ surface' = NoSurface
    /\ UNCHANGED <<variant, phase, canvasRef, mouse, animationRef, rafPending, nextRafId,
                   listeners, timer, showContent, lastAnim, rebuilt>>

\* Mutant: handleResize builds the graph before it stores the new particles.
HandleResizeBuildsFirst(vp, D) ==
    /\ variant = "part"
    /\ "resize" \in listeners
    /\ lastOp' = "resize"
    /\ IF canvasRef = "null"
       THEN UNCHANGED <<canvasSize, particles, connections, surface, dimsDirty, lastInit>>
       ELSE \E ds \in DrawsFor(D, ParticleCount(vp[1], vp[2])) :
              LET created == CreateParticles(ds, vp[1], vp[2])
              IN  /\ canvasSize' = vp
                  /\ dimsDirty' = TRUE
                  /\ particles' = created
                  /\ lastInit' = created
                  /\ connections' = updateConnections(particles)
                  /\ surface' = NoSurface
    /\ UNCHANGED <<variant, phase, canvasRef, mouse, animationRef, rafPending, nextRafId,
                   listeners, timer, showContent, lastAnim, rebuilt>>

\* part: handleResize as the resize listener.  Assigning canvas.width clears
\* the canvas.
HandleResize(vp, D) ==
    /\ variant = "part"
    /\ "resize" \in listeners
    /\ lastOp' = "resize"
    /\ IF canvasRef = "null"
       THEN UNCHANGED <<canvasSize, particles, connections, surface, dimsDirty, lastInit>>
       ELSE \E ds \in DrawsFor(D, ParticleCount(vp[1], vp[2])) :
              LET created == CreateParticles(ds, vp[1], vp[2])
              IN  /\ canvasSize' = vp
                  /\ dimsDirty' = TRUE
                  /\ particles' = created
                  /\ lastInit' = created
                  /\ connections' = updateConnections(created)
                  /\ surface' = NoSurface
    /\ UNCHANGED <<variant, phase, canvasRef, mouse, animationRef, rafPending, nextRafId,
                   listeners, timer, showContent, lastAnim, rebuilt>>

\* tsx: the resize listener is () => window.location.reload(): the page, and
\* with it every ref, listener, timer and requested callback, starts over.
Reload ==
    /\ variant = "tsx"
    /\ "resize" \in listeners
    /\ lastOp' = "reload"
    /\ phase' = "rendered"
    /\ canvasRef' \in CanvasStates
    /\ particles' = <<>>
    /\ connections' = <<>>
    /\ mouse' = [x |-> 0, y |-> 0, moved |-> FALSE]
    /\ animationRef' = 0
    /\ rafPending' = {}
    /\ listeners' = {}
    /\ timer' = FALSE
    /\ showContent' = FALSE
    /\ dimsDirty' = FALSE
    /\ canvasSize' = <<300, 150>>
    /\ surface' = NoSurface
    /\ lastInit' = <<>>
    /\ nextRafId' = 1
    /\ lastAnim' = "none"
    /\ rebuilt' = FALSE
    /\ UNCHANGED variant

\* No resize listener is registered: the event only changes the window.
ResizeUnheard ==
    /\ "resize" \notin listeners
    /\ lastOp' = "resize"
    /\ UNCHANGED <<variant, phase, canvasRef, canvasSize, particles, connections, mouse,
                   animationRef, rafPending, nextRafId, listeners, timer, showContent,
                   dimsDirty, surface, lastInit, lastAnim, rebuilt>>

\* The window is resized to vp.
Resize(vp, D) ==
    /\ resizes < MaxResizes
    /\ resizes' = resizes + 1
    /\ win' = vp
    /\ UNCHANGED <<frames, moves>>
    /\ (HandleResize(vp, D) \/ Reload \/ ResizeUnheard)

\* The view is unmounted: React detaches the canvas ref, drops the pending
\* state update and runs the effect cleanups.  An effect that returned early
\* (no canvas) registered no cleanup.
TeardownTsx ==
    /\ variant = "tsx"
    /\ IF canvasRef = "null"
       THEN UNCHANGED <<rafPending, listeners>>
       ELSE /\ rafPending' = Cancelled(rafPending)
            /\ listeners' = listeners \ {"mousemove"}

TeardownPart ==
    /\ variant = "part"
    /\ listeners' = listeners \ {"resize", "mousemove"}
    /\ rafPending' = Cancelled(rafPending)

Teardown ==
    /\ phase = "mounted"
    /\ phase' = "torn"
    /\ canvasRef' = "null"
    /\ dimsDirty' = FALSE
    /\ lastOp' = "teardown"
    /\ (TeardownTsx \/ TeardownPart)
    /\ UNCHANGED <<variant, win, canvasSize, particles, connections, mouse, animationRef,
                   nextRafId, timer, showContent, surface, lastInit, lastAnim, rebuilt,
                   frames, moves, resizes>>

\* tsx: setTimeout(() => setShowContent(true), 500); setting the state of an
\* unmounted component changes nothing.
TimerFires ==
    /\ timer
    /\ timer' = FALSE
    /\ showContent' = (showContent \/ phase = "mounted")
    /\ lastOp' = "timer"
    /\ UNCHANGED <<variant, phase, canvasRef, win, canvasSize, particles, connections,
                   mouse, animationRef, rafPending, nextRafId, listeners, dimsDirty,
                   surface, lastInit, lastAnim, rebuilt, frames, moves, resizes>>

Next ==
    \/ Mount(Draws)
    \/ FrameCallback(MaxFrames)
    \/ \E pt \in MousePoints : moves < MaxMoves /\ MouseMove(pt)
    \/ Rerender
    \/ \E vp \in Viewports : Resize(vp, Draws)
    \/ Teardown
    \/ TimerFires

Spec ==
    Init /\ [][Next]_vars

(***************************************************************************)
(* The scheduling scenario: the handlers that request or cancel frame      *)
(* callbacks, one run of draws per viewport, and the browser's guarantee   *)
(* that a requested frame callback is run before a next repaint: a         *)
(* callback that stays requested is eventually run.                        *)
(***************************************************************************)
LiveDraws == {<<AtRestCorner, LeavingMiddle>>}

LiveNext ==
    \/ Mount(LiveDraws)
    \/ FrameCallback(MaxFrames)
    \/ Rerender
    \/ \E vp \in Viewports : Resize(vp, LiveDraws)
    \/ Teardown

FairSpec ==
    Init /\ [][LiveNext]_vars /\ WF_vars(FrameCallback(MaxFrames))

(***************************************************************************)
(* The drag scenario: one particle at rest in the corner (0, 0) of a       *)
(* 300 x 30 viewport; the pointer comes to rest 30 pixels from it and      *)
(* later jumps to the far corner, each at any time.                        *)
(***************************************************************************)
DragViewport == <<300, 30>>

DragDraws == {<<AtRestCorner>>}

DragScript == <<<<30, 0>>, <<299, 29>>>>

DragInit ==
    /\ variant \in Variants
    /\ phase = "rendered"
    /\ canvasRef = "ok"
    /\ win = DragViewport
    /\ Blank
    /\ nextRafId = 1
    /\ lastOp = "init"
    /\ lastAnim = "none"
    /\ rebuilt = FALSE
    /\ frames = 0
    /\ moves = 0
    /\ resizes = 0

DragNext ==
    \/ Mount(DragDraws)
    \/ FrameCallback(MaxDragFrames)
    \/ moves < Len(DragScript) /\ MouseMove(DragScript[moves + 1])
    \/ Rerender

DragSpec ==
    DragInit /\ [][DragNext]_vars

(***************************************************************************)
(* The pointer scenario: two particles near each other in a 300 x 60       *)
(* viewport with a drawing surface; the pointer events of the script       *)
(* arrive one after the other, each at any time the listener is            *)
(* registered: before, between and after the frame callbacks.              *)
(***************************************************************************)
PointerViewport == <<300, 60>>

PointerDraws == {<<AtRestCorner, LeavingMiddle>>}

PointerScript == <<<<10, 10>>, <<299, 59>>, <<150, 30>>>>

PointerInit ==
    /\ variant \in Variants
    /\ phase = "rendered"
    /\ canvasRef = "ok"
    /\ win = PointerViewport
    /\ Blank
    /\ nextRafId = 1
    /\ lastOp = "init"
    /\ lastAnim = "none"
    /\ rebuilt = FALSE
    /\ frames = 0
    /\ moves = 0
    /\ resizes = 0

PointerNext ==
    \/ Mount(PointerDraws)
    \/ FrameCallback(MaxFrames)
    \/ moves < Len(PointerScript) /\ MouseMove(PointerScript[moves + 1])
    \/ Rerender
    \/ Teardown

PointerSpec ==
    PointerInit /\ [][PointerNext]_vars

(***************************************************************************)
(* Helpers of the properties.                                              *)
(***************************************************************************)
\* animate() was called by the handler that ran last.
AnimateCalled ==
    \/ lastOp \in {"frame", "rerender"}
    \/ lastOp = "mount" /\ canvasRef # "null"

\* The initializer was the last thing to write the particle collection
\* before the handler that ran last returned or called animate().
InitializerRan ==
    \/ lastOp = "mount" /\ canvasRef # "null"
    \/ lastOp = "resize" /\ variant = "part" /\ phase = "mounted" /\ canvasRef # "null"

\* The connection-graph builder was the last thing the last handler did.
BuilderRanLast ==
    \/ AnimateCalled /\ lastAnim = "ran" /\ rebuilt
    \/ lastOp = "resize" /\ variant = "part" /\ phase = "mounted" /\ canvasRef # "null"

SquaredDistance(ps, i, j) ==
    (ps[i + 1].x - ps[j + 1].x) * (ps[i + 1].x - ps[j + 1].x)
    + (ps[i + 1].y - ps[j + 1].y) * (ps[i + 1].y - ps[j + 1].y)

Near(ps, i, j) ==
    SquaredDistance(ps, i, j) < (ProximityThreshold * Unit) * (ProximityThreshold * Unit)

\* conns is exactly the set of pairs i < j of ps nearer than the threshold,
\* each pair once.
ExactGraph(ps, conns) ==
    /\ \A k \in 1..Len(conns) :
         /\ conns[k].from \in 0..(Len(ps) - 1)
         /\ conns[k].to \in 0..(Len(ps) - 1)
         /\ conns[k].from < conns[k].to
         /\ Near(ps, conns[k].from, conns[k].to)
         /\ conns[k].distance * conns[k].distance <= SquaredDistance(ps, conns[k].from, conns[k].to)
         /\ SquaredDistance(ps, conns[k].from, conns[k].to)
               < (conns[k].distance + 1) * (conns[k].distance + 1)
    /\ \A i \in 0..(Len(ps) - 1), j \in 0..(Len(ps) - 1) :
         (i < j /\ Near(ps, i, j)) =>
            Cardinality({k \in 1..Len(conns) : conns[k].from = i /\ conns[k].to = j}) = 1

\* The pairs of a sequence of connections or of drawn lines, in order.
Pairs(seq) ==
    [k \in 1..Len(seq) |-> <<seq[k].from, seq[k].to>>]

(***************************************************************************)
(* C1.  After teardown no frame callback runs or is pending and the        *)
(* mousemove listener is not registered, whatever preceded the teardown.   *)
(***************************************************************************)
C1_TeardownStopsFrames ==
    phase = "torn" =>
        /\ rafPending = {}
        /\ lastOp # "frame"
        /\ "mousemove" \notin listeners

\* A teardown that arrived while a frame was pending, after frames and a pointer event.
C1_Witness ==
    /\ phase = "torn"
    /\ lastOp = "teardown"
    /\ lastAnim = "ran"
    /\ frames > 0
    /\ mouse.moved

(***************************************************************************)
(* C2 as claimed: in a step with the pointer never moved, every particle   *)
(* keeps its velocity.                                                     *)
(***************************************************************************)
C2_VelocityKept ==
    [][(lastOp' = "frame" /\ lastAnim' = "ran" /\ ~mouse.moved) =>
          \A i \in 1..Len(particles) :
             /\ particles'[i].vx = particles[i].vx
             /\ particles'[i].vy = particles[i].vy]_vars

(***************************************************************************)
(* C2 amended: in a step with the pointer never moved, a velocity          *)
(* component changes only by the boundary reflection: it is negated when   *)
(* the advanced coordinate is outside the canvas and kept otherwise.       *)
(***************************************************************************)
C2_VelocityKeptUpToReflection ==
    [][(lastOp' = "frame" /\ lastAnim' = "ran" /\ ~mouse.moved) =>
          \A i \in 1..Len(particles) :
             /\ particles'[i].vx =
                   IF particles'[i].x < 0 \/ particles'[i].x > canvasSize[1] * Unit
                   THEN -particles[i].vx ELSE particles[i].vx
             /\ particles'[i].vy =
                   IF particles'[i].y < 0 \/ particles'[i].y > canvasSize[2] * Unit
                   THEN -particles[i].vy ELSE particles[i].vy]_vars

\* A frame step ran with the pointer never moved on a moving particle.
C2_Witness ==
    /\ lastOp = "frame"
    /\ lastAnim = "ran"
    /\ ~mouse.moved
    /\ \E i \in 1..Len(particles) : particles[i].vx # 0 /\ particles[i].x > 0

(***************************************************************************)
(* C3 as claimed: while the pointer never moves every particle is within   *)
(* [0, W] x [0, H].                                                        *)
(***************************************************************************)
InViewport(p, margin) ==
    /\ -margin <= p.x /\ p.x <= canvasSize[1] * Unit + margin
    /\ -margin <= p.y /\ p.y <= canvasSize[2] * Unit + margin

C3_InsideViewport ==
    ~mouse.moved => \A i \in 1..Len(particles) : InViewport(particles[i], 0)

(***************************************************************************)
(* C3 amended: while the pointer never moves every particle is within      *)
(* [-0.15, W + 0.15] x [-0.15, H + 0.15]: it leaves the viewport by at     *)
(* most one step of its initial velocity.                                  *)
(***************************************************************************)
MaxDrift ==
    DivT(VelocitySpread[1] * Unit, 2 * VelocitySpread[2])

C3_InsideViewportUpToOneStep ==
    ~mouse.moved => \A i \in 1..Len(particles) : InViewport(particles[i], MaxDrift)

\* After several steps a particle is past the right edge.
C3_Witness ==
    /\ ~mouse.moved
    /\ frames >= 2
    /\ \E i \in 1..Len(particles) : particles[i].x > canvasSize[1] * Unit

(***************************************************************************)
(* C5.  Whenever the connection-graph builder has just run, the connection *)
(* set is exactly the pairs i < j at distance strictly below 150, each     *)
(* once, with the distance of the pair cached.                             *)
(***************************************************************************)
C5_BuilderExact ==
    BuilderRanLast => ExactGraph(particles, connections)

\* The builder has just run on two particles it connects.
C5_Witness ==
    /\ BuilderRanLast
    /\ Len(particles) = 2
    /\ Len(connections) = 1

C7_InitializerCount ==
    InitializerRan =>
        /\ Len(lastInit) * AreaPerParticle <= canvasSize[1] * canvasSize[2]
        /\ canvasSize[1] * canvasSize[2] < (Len(lastInit) + 1) * AreaPerParticle
        /\ canvasSize = win
        /\ \A i \in 1..Len(lastInit) :
             /\ 0 <= lastInit[i].x /\ lastInit[i].x < canvasSize[1] * Unit
             /\ 0 <= lastInit[i].y /\ lastInit[i].y < canvasSize[2] * Unit
             /\ lastInit[i].originalX = lastInit[i].x
             /\ lastInit[i].originalY = lastInit[i].y

\* A resize has just re-run the initializer for a viewport of two particles.
C7_Witness ==
    /\ InitializerRan
    /\ lastOp = "resize"
    /\ Len(lastInit) = 2

(***************************************************************************)
(* C8.  Every initialization replaces the particle collection and rebuilds *)
(* the connection graph from it before any frame step runs: after a        *)
(* resize the graph is exactly that of the new particles, and at mount the *)
(* graph animate() starts from is that of the new particles.               *)
(***************************************************************************)
C8_InitializerRebuilds ==
    /\ (lastOp = "resize" /\ InitializerRan) =>
          /\ particles = lastInit
          /\ ExactGraph(particles, connections)
    /\ (lastOp = "mount" /\ InitializerRan) =>
          /\ Len(particles) = Len(lastInit)
          /\ ~rebuilt => ExactGraph(lastInit, connections)
          /\ lastAnim = "ran" => Pairs(surface.lines) = Pairs(updateConnections(lastInit))

\* A resize after frame steps: two far particles and an empty graph.
C8_Witness ==
    /\ lastOp = "resize"
    /\ InitializerRan
    /\ frames > 0
    /\ Len(particles) = 2
    /\ connections = <<>>

(***************************************************************************)
(* C9.  An animate() call without a drawing surface changes no particle,   *)
(* connection, pointer or canvas state and requests no frame.              *)
(***************************************************************************)
C9_NoSurfaceNoStep ==
    [][(canvasRef' # "ok" /\ AnimateCalled') =>
          /\ particles' = IF lastOp' = "mount" THEN lastInit' ELSE particles
          /\ lastOp' # "mount" => connections' = connections
          /\ lastOp' = "mount" => ExactGraph(lastInit', connections')
          /\ mouse' = mouse
          /\ surface' = surface
          /\ nextRafId' = nextRafId
          /\ rafPending' \subseteq rafPending
          /\ animationRef' = animationRef]_vars

\* animate() was called at mount on a canvas without a 2D context.
C9_Witness ==
    /\ lastOp = "mount"
    /\ canvasRef = "noctx"
    /\ lastAnim = "skipped"
    /\ Len(particles) = 2

(***************************************************************************)
(* C4 as claimed: after a step with the pointer moved, every particle's    *)
(* speed is at most 3, inside and outside the magnetic radius.             *)
(***************************************************************************)
Speed(p) ==
    Sqrt(p.vx * p.vx + p.vy * p.vy)

InsideMagneticRadius(p) ==
    (mouse.x - p.x) * (mouse.x - p.x) + (mouse.y - p.y) * (mouse.y - p.y)
        < (MagneticRadius * Unit) * (MagneticRadius * Unit)

C4_SpeedLimited ==
    (AnimateCalled /\ lastAnim = "ran" /\ mouse.moved) =>
        \A i \in 1..Len(particles) : Speed(particles[i]) <= MaxSpeed * Unit

(***************************************************************************)
(* C4 amended: after a step with the pointer moved, every particle inside  *)
(* the 200-unit magnetic radius has speed at most 3 (up to rounding); the  *)
(* return-to-origin branch applies no limit.                               *)
(***************************************************************************)
C4_SpeedLimitedInsideRadius ==
    (AnimateCalled /\ lastAnim = "ran" /\ mouse.moved) =>
        \A i \in 1..Len(particles) :
            InsideMagneticRadius(particles[i]) => Speed(particles[i]) <= MaxSpeed * Unit

\* A step has left a particle inside the radius at the limit.
C4_Witness ==
    /\ AnimateCalled
    /\ lastAnim = "ran"
    /\ mouse.moved
    /\ \E i \in 1..Len(particles) :
          /\ InsideMagneticRadius(particles[i])
          /\ Speed(particles[i]) >= MaxSpeed * Unit - 1

(***************************************************************************)
(* C10.  While the view is mounted with a valid drawing surface, every     *)
(* executed step requests exactly one next frame, which is then the only   *)
(* pending one, and under fair scheduling of the frame callback another    *)
(* step is executed (up to the model's bound on frames) unless the view is *)
(* torn down or the page reloaded.                                         *)
(***************************************************************************)
Running ==
    phase = "mounted" /\ canvasRef = "ok"

C10_FramesKeepComing ==
    /\ [][(AnimateCalled' /\ lastAnim' = "ran") =>
            /\ nextRafId' = nextRafId + 1
            /\ rafPending' = {nextRafId}
            /\ animationRef' = nextRafId]_vars
    /\ [](Running => rafPending = {animationRef})
    /\ \A n \in 0..(MaxFrames - 1) :
          (Running /\ frames = n) ~> (frames > n \/ ~Running)

\* Frame callbacks have run one after the other and the next is requested.
C10_Witness ==
    /\ Running
    /\ lastOp = "frame"
    /\ frames >= 2
    /\ Cardinality(rafPending) = 1

(***************************************************************************)
(* C11.  Every connection of the connection set carries a cached distance  *)
(* strictly below the proximity threshold 150, in every reachable state.   *)
(***************************************************************************)
C11_CachedDistanceBelowThreshold ==
    \A k \in 1..Len(connections) :
        /\ 0 <= connections[k].distance
        /\ connections[k].distance < ProximityThreshold * Unit

\* A connection kept, with its cached distance, through a step without rebuild.
C11_Witness ==
    /\ lastOp = "frame"
    /\ lastAnim = "ran"
    /\ ~rebuilt
    /\ Len(connections) = 1

(***************************************************************************)
(* C12.  In a simulation step the reflection stage, applied to the already *)
(* advanced particle, negates vx exactly when the advanced x is outside    *)
(* [0, width] and vy exactly when the advanced y is outside [0, height],   *)
(* each test touching only its own component, and moves nothing; the       *)
(* magnetism stage of the step starts from that result.                    *)
(***************************************************************************)
OutsideRange(c, limit) ==
    c < 0 \/ c > limit * Unit

C12_ReflectionNegates ==
    [][(lastOp' \in {"frame", "rerender"} /\ lastAnim' = "ran") =>
          \A i \in 1..Len(particles) :
             \E before \in {Advance(particles[i])} :
             \E after \in {Reflect(before, canvasSize[1], canvasSize[2])} :
                 /\ OutsideRange(before.x, canvasSize[1]) =>
                        after.vx + before.vx = 0
                 /\ ~OutsideRange(before.x, canvasSize[1]) => after.vx = before.vx
                 /\ OutsideRange(before.y, canvasSize[2]) =>
                        after.vy + before.vy = 0
                 /\ ~OutsideRange(before.y, canvasSize[2]) => after.vy = before.vy
                 /\ [after EXCEPT !.vx = 0, !.vy = 0] = [before EXCEPT !.vx = 0, !.vy = 0]
                 /\ particles'[i] = Magnetism(after, mouse)]_vars

\* A step has just reflected a particle at the right edge only: its x is past
\* the edge and its vx negative, while its y is inside and it still moves in y.
C12_Witness ==
    /\ lastOp = "frame"
    /\ lastAnim = "ran"
    /\ ~mouse.moved
    /\ \E i \in 1..Len(particles) :
          /\ particles[i].x > canvasSize[1] * Unit
          /\ particles[i].vx < 0
          /\ ~OutsideRange(particles[i].y, canvasSize[2])
          /\ particles[i].vy # 0

(***************************************************************************)
(* C13.  A pointer event changes the pointer record and nothing of the     *)
(* particles, the connections, the canvas or the frame requests; no        *)
(* animate() call writes the pointer record; and every executed step       *)
(* computes from the position of the latest pointer event delivered, or    *)
(* from the unmoved record when none was.                                  *)
(***************************************************************************)
LatestPointer ==
    IF moves = 0
    THEN [x |-> 0, y |-> 0, moved |-> FALSE]
    ELSE [x |-> PointerScript[moves][1] * Unit,
          y |-> PointerScript[moves][2] * Unit,
          moved |-> TRUE]

C13_PointerLastWriteWins ==
    [][/\ moves' # moves =>
            /\ mouse' = LatestPointer'
            /\ particles' = particles
            /\ connections' = connections
            /\ surface' = surface
            /\ canvasSize' = canvasSize
            /\ rafPending' = rafPending
            /\ animationRef' = animationRef
       /\ lastOp' \in {"mount", "frame", "rerender"} => mouse' = mouse
       /\ (lastOp' \in {"frame", "rerender"} /\ lastAnim' = "ran") =>
            \E latest \in {LatestPointer} :
                particles' = UpdateParticles(particles, latest, canvasSize[1], canvasSize[2])
      ]_vars

\* Two pointer events arrived between the animate() call of the mount and the
\* first frame callback, which then pulled a particle toward the second.
C13_Witness ==
    /\ lastOp = "frame"
    /\ lastAnim = "ran"
    /\ frames = 1
    /\ moves = 2
    /\ mouse = LatestPointer
    /\ \E i \in 1..Len(particles) : particles[i].vx > 0 /\ particles[i].vy > 0

(***************************************************************************)
(* C14.  The draw pass has no side effect on the simulation state: after   *)
(* an executed step the particles are exactly what the update stage        *)
(* computed and the connections are untouched unless the rebuild fired;    *)
(* what was drawn is the lines and discs of that state, so drawing the     *)
(* unchanged state again gives the same lines and discs.                   *)
(***************************************************************************)
C14_DrawPassPure ==
    [][(lastOp' \in {"frame", "rerender"} /\ lastAnim' = "ran") =>
          \E updated \in {UpdateParticles(particles, mouse, canvasSize[1], canvasSize[2])} :
             /\ particles' = updated
             /\ ~rebuilt' => connections' = connections
             /\ surface'.discs = DrawParticles(updated)
             /\ surface'.lines = DrawConnections(updated, connections)
             /\ ~rebuilt' => DrawPass(variant', particles', connections') = surface']_vars

\* A step drew one line and two discs at positions that are not whole pixels.
C14_Witness ==
    /\ lastOp = "frame"
    /\ lastAnim = "ran"
    /\ ~rebuilt
    /\ Len(surface.lines) = 1
    /\ Len(surface.discs) = 2
    /\ \E i \in 1..Len(particles) : particles[i].x % Unit # 0

(***************************************************************************)
(* C15.  A step whose rebuild does not fire leaves the connection set as   *)
(* it was, pairs and cached distances.  The connection set changes only in *)
(* a handler that runs the graph builder: the initializer at mount or      *)
(* resize, or a step whose rebuild fires; a page reload of the tsx variant *)
(* discards the page, and with it the set, before the next initialization. *)
(***************************************************************************)
C15_StaleBetweenRebuilds ==
    [][/\ (lastOp' \in {"frame", "rerender"} /\ ~rebuilt') => connections' = connections
       /\ connections' # connections =>
            \/ lastOp' = "mount" /\ canvasRef' # "null"
            \/ lastOp' = "resize" /\ variant' = "part" /\ canvasRef' # "null"
            \/ lastOp' = "reload"
            \/ lastOp' \in {"frame", "rerender"} /\ lastAnim' = "ran" /\ rebuilt'
      ]_vars

\* After a step without rebuild the particles of a connection are no longer
\* at the cached distance.
C15_Witness ==
    /\ lastOp = "frame"
    /\ lastAnim = "ran"
    /\ ~rebuilt
    /\ Len(connections) = 1
    /\ SquaredDistance(particles, connections[1].from, connections[1].to)
          < connections[1].distance * connections[1].distance

(***************************************************************************)
(* C16.  An executed step keeps the number of particles and every          *)
(* particle's radius, color and origin; only x, y, vx and vy may change,   *)
(* with the pointer moved or not.  The step that animate() runs at mount   *)
(* starts from the particles the initializer created.                      *)
(***************************************************************************)
SameIdentity(before, after) ==
    /\ Len(after) = Len(before)
    /\ \A i \in 1..Len(before) :
          [after[i] EXCEPT !.x = 0, !.y = 0, !.vx = 0, !.vy = 0]
             = [before[i] EXCEPT !.x = 0, !.y = 0, !.vx = 0, !.vy = 0]

C16_StepKeepsIdentity ==
    [][/\ (lastOp' \in {"frame", "rerender"} /\ lastAnim' = "ran") =>
            SameIdentity(particles, particles')
       /\ (lastOp' = "mount" /\ lastAnim' = "ran") =>
            SameIdentity(lastInit', particles')
      ]_vars

\* A step with the pointer moved changed the velocity of a particle that is
\* away from its origin.
C16_Witness ==
    /\ lastOp = "frame"
    /\ lastAnim = "ran"
    /\ mouse.moved
    /\ \E i \in 1..Len(particles) :
          /\ particles[i].x # particles[i].originalX
          /\ particles[i].vx # lastInit[i].vx
          /\ particles[i].vy # lastInit[i].vy

(***************************************************************************)
(* C17.  In every reachable state every connection joins two distinct      *)
(* particles of the current collection: 0 <= from < to < particle count.   *)
(***************************************************************************)
C17_ConnectionIndicesValid ==
    \A k \in 1..Len(connections) :
        /\ 0 <= connections[k].from
        /\ connections[k].from < connections[k].to
        /\ connections[k].to < Len(particles)

\* Between a resize and the next frame step: the resize came after frame
\* steps, a frame callback is pending, the restart of the animation effect
\* has not happened, and the new particles are connected.
C17_Witness ==
    /\ lastOp = "resize"
    /\ variant = "part"
    /\ frames > 0
    /\ rafPending # {}
    /\ dimsDirty
    /\ Len(particles) = 2
    /\ Len(connections) = 1

(***************************************************************************)
(* C18.  At most one frame callback is pending in every reachable state,   *)
(* and it is the one animationRef names: one animation chain at most,      *)
(* through mount, resize, the restart of the animation effect, the frame   *)
(* steps in between and teardown.                                          *)
(***************************************************************************)
C18_SingleChain ==
    /\ Cardinality(rafPending) <= 1
    /\ rafPending \subseteq {animationRef}

\* A frame step has run between a resize and the restart of the animation
\* effect that the resize asked for; one callback is pending.
C18_Witness ==
    /\ lastOp = "frame"
    /\ variant = "part"
    /\ resizes > 0
    /\ dimsDirty
    /\ lastAnim = "ran"
    /\ Cardinality(rafPending) = 1

(***************************************************************************)
(* C19 as claimed: after teardown no listener of the component is          *)
(* registered and its timer is not pending, so none of its callbacks runs. *)
(***************************************************************************)
C19_TeardownRemovesAll ==
    phase = "torn" =>
        /\ listeners = {}
        /\ ~timer
        /\ lastOp \notin {"frame", "mousemove", "timer", "reload"}
====
